---- MODULE Spec2Model ----
(***************************************************************************)
(* Model of zooManagement.cpp: the name catalog loader, the arrival record *)
(* loader, the name assigner, the report writer and main, which runs them  *)
(* in sequence.                                                            *)
(*                                                                         *)
(* A C++ string is a sequence of one-character strings, so that trimming,  *)
(* comma splitting, header detection, token extraction, lowercasing and    *)
(* numeric conversion are computed character by character as the code      *)
(* computes them.  A text file is a sequence of lines.                     *)
(***************************************************************************)
EXTENDS Integers, Sequences, FiniteSets, TLC

VARIABLES
    pc,             \* position in main: boot, loadNames, loadArrivals, assign, update, display,
                    \* done (main returned), aborted (std::terminate)
    namesFile,      \* animalNames.txt: [ok |-> it can be opened, lines |-> its lines]
    namesPos,       \* index of the next line getline reads in loadAnimalNames
    currentSpecies, \* loadAnimalNames: species of the last header line
    namesMap,       \* map<string, vector<string>>: a function on its set of keys
    arrivalsFile,   \* arrivingAnimals.txt: [ok, lines]
    arrivalsPos,    \* index of the next line getline reads in loadArrivingAnimals
    animals,        \* vector<Animal>
    next,           \* index of the next record of main's naming loop
    draws,          \* calls of rand() since srand
    cerr,           \* diagnostics written to cerr, in order
    cout,           \* lines written to cout, in order
    outFile,        \* lines of newAnimals.txt
    outExists,      \* newAnimals.txt exists
    canWrite,       \* newAnimals.txt can be opened (created) for appending
    canRead,        \* newAnimals.txt, if it exists, can be opened for reading
    exitCode,       \* exit status of the process, once pc is done or aborted
    runs            \* runs of the program started so far

vars == <<pc, namesFile, namesPos, currentSpecies, namesMap, arrivalsFile, arrivalsPos,
          animals, next, draws, cerr, cout, outFile, outExists, canWrite, canRead,
          exitCode, runs>>

(***************************************************************************)
(* Bounds of the model.                                                    *)
(***************************************************************************)
MaxNameLines == 3
MaxArrivalLines == 3
MaxRand == 2
MaxRuns == 2

(***************************************************************************)
(* Characters.  Ascii lists the characters of the model in ASCII order;    *)
(* std::map<string, ...> orders its keys by comparing them character by    *)
(* character in that order.                                                *)
(***************************************************************************)
UpperChars == <<"A","B","C","D","E","F","G","H","I","J","K","L","M",
                "N","O","P","Q","R","S","T","U","V","W","X","Y","Z">>
LowerChars == <<"a","b","c","d","e","f","g","h","i","j","k","l","m",
                "n","o","p","q","r","s","t","u","v","w","x","y","z">>
Digits == <<"0","1","2","3","4","5","6","7","8","9">>
Ascii == <<"\t", " ", "+", ",", "-", ".">> \o Digits \o <<":">> \o UpperChars \o LowerChars

Code(c) == CHOOSE i \in 1..Len(Ascii) : Ascii[i] = c

IsDigit(c) == \E i \in 1..Len(Digits) : Digits[i] = c
DigitVal(c) == (CHOOSE i \in 1..Len(Digits) : Digits[i] = c) - 1

\* ::tolower on an ASCII character
tolower(c) ==
    IF \E i \in 1..Len(UpperChars) : UpperChars[i] = c
    THEN LowerChars[CHOOSE i \in 1..Len(UpperChars) : UpperChars[i] = c]
    ELSE c

\* transform(s.begin(), s.end(), s.begin(), ::tolower)
ToLowerStr(s) == [i \in 1..Len(s) |-> tolower(s[i])]

\* std::string operator<, the order of the keys of the map
RECURSIVE StrLess(_, _)
StrLess(a, b) ==
    IF b = <<>> THEN FALSE
    ELSE IF a = <<>> THEN TRUE
    ELSE IF a[1] # b[1] THEN Code(a[1]) < Code(b[1])
    ELSE StrLess(Tail(a), Tail(b))

Blank == {" ", "\t"}

\* trim: find_first_not_of(" \t"), find_last_not_of(" \t"), substr
trim(s) ==
    LET keep == {i \in 1..Len(s) : s[i] \notin Blank} IN
    IF keep = {} THEN <<>>
    ELSE LET start == CHOOSE i \in keep : \A j \in keep : i <= j
             end == CHOOSE i \in keep : \A j \in keep : j <= i
         IN SubSeq(s, start, end)

\* while (getline(ss, part, ',')): the pieces between the commas; getline fails at
\* the end of the stream, so no piece follows a final comma and "" has no piece
RECURSIVE SplitComma(_)
SplitComma(s) ==
    IF s = <<>> THEN <<>>
    ELSE LET commas == {i \in 1..Len(s) : s[i] = ","} IN
         IF commas = {} THEN <<s>>
         ELSE LET c == CHOOSE i \in commas : \A j \in commas : i <= j
              IN <<SubSeq(s, 1, c - 1)>> \o SplitComma(SubSeq(s, c + 1, Len(s)))

\* namesMap[k] = v
MapPut(m, k, v) == [x \in (DOMAIN m) \cup {k} |-> IF x = k THEN v ELSE m[x]]

EmptyMap == [x \in {} |-> <<>>]

(***************************************************************************)
(* loadAnimalNames                                                         *)
(***************************************************************************)
sNames == <<"N","a","m","e","s",":">>
snames == <<"n","a","m","e","s",":">>

\* line 56: the trimmed line ends with "Names:" or "names:"
IsHeader(line) ==
    /\ Len(line) >= Len(sNames)
    /\ SubSeq(line, Len(line) - Len(sNames) + 1, Len(line)) \in {sNames, snames}

\* line 58: trim(line.substr(0, line.size() - 6))
HeaderSpecies(line) == trim(SubSeq(line, 1, Len(line) - Len(sNames)))

\* A header that keeps the list its species already has
KeepEntry(m, species) == IF species \in DOMAIN m THEN m ELSE MapPut(m, species, <<>>)

\* line 59: namesMap[currentSpecies] = vector<string>()
ResetEntry(m, species) == MapPut(m, species, <<>>)

\* lines 62-68: push the non-empty trimmed fields of a data line onto the list of
\* the current species, when there is one
RECURSIVE PushNames(_, _, _)
PushNames(m, species, fields) ==
    IF fields = <<>> THEN m
    ELSE LET name == trim(Head(fields)) IN
         PushNames(IF name # <<>> /\ species # <<>>
                   THEN MapPut(m, species,
                               (IF species \in DOMAIN m THEN m[species] ELSE <<>>) \o <<name>>)
                   ELSE m,
                   species, Tail(fields))

NamesLine == trim(namesFile.lines[namesPos])

NamesLocals == <<arrivalsFile, arrivalsPos, animals, next, draws, cout, outFile,
                 outExists, canWrite, canRead, exitCode, runs>>

\* lines 44-48: the file cannot be opened
LoadNames_OpenFail ==
    /\ pc = "loadNames"
    /\ ~namesFile.ok
    /\ cerr' = Append(cerr, [kind |-> "open", text |-> "animalNames.txt"])
    /\ pc' = "loadArrivals"
    /\ UNCHANGED <<namesFile, namesPos, currentSpecies, namesMap>>
    /\ UNCHANGED NamesLocals

\* lines 51-54: a blank line
LoadNames_Blank ==
    /\ pc = "loadNames"
    /\ namesFile.ok
    /\ namesPos <= Len(namesFile.lines)
    /\ NamesLine = <<>>
    /\ namesPos' = namesPos + 1
    /\ UNCHANGED <<pc, namesFile, currentSpecies, namesMap, cerr>>
    /\ UNCHANGED NamesLocals

\* lines 56-59: a header line
LoadNames_Header ==
    /\ pc = "loadNames"
    /\ namesFile.ok
    /\ namesPos <= Len(namesFile.lines)
    /\ NamesLine # <<>>
    /\ IsHeader(NamesLine)
    /\ currentSpecies' = HeaderSpecies(NamesLine)
    /\ namesMap' = ResetEntry(namesMap, HeaderSpecies(NamesLine))
    /\ namesPos' = namesPos + 1
    /\ UNCHANGED <<pc, namesFile, cerr>>
    /\ UNCHANGED NamesLocals

\* lines 60-69: a line of names
LoadNames_Data ==
    /\ pc = "loadNames"
    /\ namesFile.ok
    /\ namesPos <= Len(namesFile.lines)
    /\ NamesLine # <<>>
    /\ ~IsHeader(NamesLine)
    /\ namesMap' = PushNames(namesMap, currentSpecies, SplitComma(NamesLine))
    /\ namesPos' = namesPos + 1
    /\ UNCHANGED <<pc, namesFile, currentSpecies, cerr>>
    /\ UNCHANGED NamesLocals

\* lines 51, 71-72: end of file
LoadNames_Return ==
    /\ pc = "loadNames"
    /\ namesFile.ok
    /\ namesPos > Len(namesFile.lines)
    /\ pc' = "loadArrivals"
    /\ UNCHANGED <<namesFile, namesPos, currentSpecies, namesMap, cerr>>
    /\ UNCHANGED NamesLocals

(***************************************************************************)
(* loadArrivingAnimals                                                     *)
(***************************************************************************)
MinFields == 6
IntMax == 2147483647
AbortStatus == 134   \* 128 + SIGABRT: std::terminate after an uncaught exception

\* partStream >> ageStr: skip blanks, then the characters up to the next blank.
\* tok is the token (empty when extraction fails); rest is what getline(partStream,
\* species) reads afterwards: nothing once the stream has failed or hit its end.
FirstToken(s) ==
    LET keep == {i \in 1..Len(s) : s[i] \notin Blank} IN
    IF keep = {} THEN [tok |-> <<>>, rest |-> <<>>]
    ELSE LET start == CHOOSE i \in keep : \A j \in keep : i <= j
             stops == {i \in start..Len(s) : s[i] \in Blank}
         IN IF stops = {} THEN [tok |-> SubSeq(s, start, Len(s)), rest |-> <<>>]
            ELSE LET stop == CHOOSE i \in stops : \A j \in stops : i <= j
                 IN [tok |-> SubSeq(s, start, stop - 1), rest |-> SubSeq(s, stop, Len(s))]

\* the longest prefix of s made of digits
RECURSIVE DigitPrefix(_)
DigitPrefix(s) ==
    IF s # <<>> /\ IsDigit(Head(s)) THEN <<Head(s)>> \o DigitPrefix(Tail(s)) ELSE <<>>

\* the value of a string of digits, or -1 when it is more than IntMax
RECURSIVE DigitsValue(_, _)
DigitsValue(acc, ds) ==
    IF ds = <<>> THEN acc
    ELSE IF acc = -1 \/ acc > (IntMax - DigitVal(Head(ds))) \div 10 THEN -1
    ELSE DigitsValue(acc * 10 + DigitVal(Head(ds)), Tail(ds))

RECURSIVE DropLeadingZeros(_)
DropLeadingZeros(ds) ==
    IF ds # <<>> /\ Head(ds) = "0" THEN DropLeadingZeros(Tail(ds)) ELSE ds

Signed(s) == s # <<>> /\ Head(s) \in {"+", "-"}
Unsigned(s) == IF Signed(s) THEN Tail(s) ELSE s
SignOf(s) == IF s # <<>> /\ Head(s) = "-" THEN -1 ELSE 1

\* the digits of -INT_MIN
IntMinDigits == <<"2","1","4","7","4","8","3","6","4","8">>

\* stoi: optional sign, then decimal digits; what follows them is ignored.
\* ok is FALSE where stoi throws: invalid_argument without a digit, out_of_range
\* when the value does not fit an int.
stoi(s) ==
    LET ds == DigitPrefix(Unsigned(s))
        mag == DigitsValue(0, ds)
    IN IF ds = <<>> THEN [ok |-> FALSE, val |-> 0]
       ELSE IF mag # -1 THEN [ok |-> TRUE, val |-> SignOf(s) * mag]
       ELSE IF SignOf(s) = -1 /\ DropLeadingZeros(ds) = IntMinDigits
            THEN [ok |-> TRUE, val |-> -IntMax - 1]
       ELSE [ok |-> FALSE, val |-> 0]

RECURSIVE DropTrailingZeros(_)
DropTrailingZeros(ds) ==
    IF ds # <<>> /\ ds[Len(ds)] = "0" THEN DropTrailingZeros(SubSeq(ds, 1, Len(ds) - 1)) ELSE ds

\* stod on decimal notation: optional sign, digits, optional point and digits, at
\* least one digit in all; what follows is ignored.  The value n / 10^k is the pair
\* <<n, k>> with no trailing zero in the fraction.  ok is FALSE where stod throws.
\* (Exponents, hexadecimal, "inf", "nan" and numbers of more than nine digits are
\* not in the inputs of the model.)
stod(s) ==
    LET body == Unsigned(s)
        ip == DigitPrefix(body)
        after == SubSeq(body, Len(ip) + 1, Len(body))
        fp == IF after # <<>> /\ Head(after) = "." THEN DigitPrefix(Tail(after)) ELSE <<>>
        frac == DropTrailingZeros(fp)
    IN IF ip = <<>> /\ fp = <<>>
       THEN [ok |-> FALSE, val |-> <<0, 0>>]
       ELSE [ok |-> TRUE, val |-> <<SignOf(s) * DigitsValue(0, ip \o frac), Len(frac)>>]

\* lines 96-101: the trimmed comma-separated parts of a trimmed line
Parts(line) == LET raw == SplitComma(line) IN [i \in 1..Len(raw) |-> trim(raw[i])]

\* line 103: parts.size() < 6
TooFew(parts) == Len(parts) < MinFields

\* lines 113, 122: stoi or stod throws
Throws(parts) == ~stoi(FirstToken(parts[1]).tok).ok \/ ~stod(parts[4]).ok

\* lines 107-123: the record of a line; its name is the empty string of a
\* default-constructed std::string
MakeAnimal(parts) ==
    [age |-> stoi(FirstToken(parts[1]).tok).val,
     species |-> trim(FirstToken(parts[1]).rest),
     birthSeason |-> parts[2],
     color |-> parts[3],
     weight |-> stod(parts[4]).val,
     origin |-> parts[5] \o <<" ">> \o parts[6],
     name |-> <<>>]

\* An invalid record ends the loop
StopAfterInvalid(pos, n) == n + 1

\* line 105: continue with the next line
AfterInvalid(pos, n) == pos + 1

ArrivalsLine == trim(arrivalsFile.lines[arrivalsPos])

ArrivalsLocals == <<namesFile, namesPos, currentSpecies, namesMap, next, draws, cout,
                    outFile, outExists, canWrite, canRead, runs>>

\* lines 85-89: the file cannot be opened
LoadArrivals_OpenFail ==
    /\ pc = "loadArrivals"
    /\ ~arrivalsFile.ok
    /\ cerr' = Append(cerr, [kind |-> "open", text |-> "arrivingAnimals.txt"])
    /\ pc' = "assign"
    /\ UNCHANGED <<arrivalsFile, arrivalsPos, animals, exitCode>>
    /\ UNCHANGED ArrivalsLocals

\* lines 91-94: a blank line
LoadArrivals_Blank ==
    /\ pc = "loadArrivals"
    /\ arrivalsFile.ok
    /\ arrivalsPos <= Len(arrivalsFile.lines)
    /\ ArrivalsLine = <<>>
    /\ arrivalsPos' = arrivalsPos + 1
    /\ UNCHANGED <<pc, arrivalsFile, animals, cerr, exitCode>>
    /\ UNCHANGED ArrivalsLocals

\* lines 103-106: fewer than 6 fields
LoadArrivals_Invalid ==
    /\ pc = "loadArrivals"
    /\ arrivalsFile.ok
    /\ arrivalsPos <= Len(arrivalsFile.lines)
    /\ ArrivalsLine # <<>>
    /\ TooFew(Parts(ArrivalsLine))
    /\ cerr' = Append(cerr, [kind |-> "invalid", text |-> ArrivalsLine])
    /\ arrivalsPos' = AfterInvalid(arrivalsPos, Len(arrivalsFile.lines))
    /\ UNCHANGED <<pc, arrivalsFile, animals, exitCode>>
    /\ UNCHANGED ArrivalsLocals

\* lines 113, 122: stoi or stod throws; nothing catches the exception, so
\* std::terminate aborts the process
LoadArrivals_Throw ==
    /\ pc = "loadArrivals"
    /\ arrivalsFile.ok
    /\ arrivalsPos <= Len(arrivalsFile.lines)
    /\ ArrivalsLine # <<>>
    /\ ~TooFew(Parts(ArrivalsLine))
    /\ Throws(Parts(ArrivalsLine))
    /\ pc' = "aborted"
    /\ exitCode' = AbortStatus
    /\ UNCHANGED <<arrivalsFile, arrivalsPos, animals, cerr>>
    /\ UNCHANGED ArrivalsLocals

\* lines 107-125: a record is appended
LoadArrivals_Record ==
    /\ pc = "loadArrivals"
    /\ arrivalsFile.ok
    /\ arrivalsPos <= Len(arrivalsFile.lines)
    /\ ArrivalsLine # <<>>
    /\ ~TooFew(Parts(ArrivalsLine))
    /\ ~Throws(Parts(ArrivalsLine))
    /\ animals' = Append(animals, MakeAnimal(Parts(ArrivalsLine)))
    /\ arrivalsPos' = arrivalsPos + 1
    /\ UNCHANGED <<pc, arrivalsFile, cerr, exitCode>>
    /\ UNCHANGED ArrivalsLocals

\* lines 91, 127-128: end of file
LoadArrivals_Return ==
    /\ pc = "loadArrivals"
    /\ arrivalsFile.ok
    /\ arrivalsPos > Len(arrivalsFile.lines)
    /\ pc' = "assign"
    /\ UNCHANGED <<arrivalsFile, arrivalsPos, animals, cerr, exitCode>>
    /\ UNCHANGED ArrivalsLocals

(***************************************************************************)
(* assignName                                                              *)
(***************************************************************************)
Unnamed == <<"U","n","n","a","m","e","d">>

\* namesMap.end()
End == <<"end()">>

\* The scan stops at the last key that matches instead of the first
LastCaseInsensitive(species, m) ==
    LET hits == {k \in DOMAIN m : ToLowerStr(k) = ToLowerStr(species)} IN
    IF hits = {} THEN End
    ELSE CHOOSE k \in hits : \A j \in hits \ {k} : StrLess(j, k)

\* lines 138-147: the first key, in the map's order, equal to species once both
\* are lowercased
FirstCaseInsensitive(species, m) ==
    LET hits == {k \in DOMAIN m : ToLowerStr(k) = ToLowerStr(species)} IN
    IF hits = {} THEN End
    ELSE CHOOSE k \in hits : \A j \in hits \ {k} : StrLess(k, j)

\* A lookup that never tries the exact key
LookupScanOnly(species, m) == FirstCaseInsensitive(species, m)

\* lines 135-148: the iterator `it` after the lookup
Lookup(species, m) ==
    IF species \in DOMAIN m THEN species ELSE FirstCaseInsensitive(species, m)

\* An index taken modulo one more than the size
PickIndexPastEnd(r, size) == r % (size + 1)

\* line 150: rand() % it->second.size()
PickIndex(r, size) == r % size

\* line 151: it->second[index]; an index past the end reads outside the vector
At(list, index) == IF index < Len(list) THEN list[index + 1] ELSE <<"?">>

\* lines 149-153, with r the value rand() returns
assignName(species, m, r) ==
    LET it == Lookup(species, m) IN
    IF it # End /\ m[it] # <<>>
    THEN At(m[it], PickIndex(r, Len(m[it])))
    ELSE Unnamed

\* rand() is called on every call
DrawsAlways(species, m) == 1

\* lines 149-150: rand() is called only when a non-empty list was found
DrawsOf(species, m) ==
    LET it == Lookup(species, m) IN IF it # End /\ m[it] # <<>> THEN 1 ELSE 0

(***************************************************************************)
(* updateZooPopulation                                                     *)
(***************************************************************************)
\* lines 169-175: the fields of a line of the report, in the order written
ReportLine(animal) ==
    <<animal.name, animal.species, animal.age, animal.birthSeason, animal.color,
      animal.weight, animal.origin>>

ReportLines(as) == [i \in 1..Len(as) |-> ReportLine(as[i])]

\* The file is opened without ios::app and loses what it held
Truncated(old, lines) == lines

\* line 162: ios::app, every write goes to the end of the file
Appended(old, lines) == old \o lines

Banner == <<"Zoo population updated successfully.">>

\* lines 163-166, 198: the file cannot be opened for writing
Update_OpenFail ==
    /\ pc = "update"
    /\ ~canWrite
    /\ cerr' = Append(cerr, [kind |-> "write", text |-> "newAnimals.txt"])
    /\ cout' = Append(cout, Banner)
    /\ pc' = "display"
    /\ UNCHANGED <<namesFile, namesPos, currentSpecies, namesMap, arrivalsFile, arrivalsPos,
                   animals, next, draws, outFile, outExists, canWrite, canRead, exitCode, runs>>

\* lines 162, 168-177, 198: the records are appended
Update_Write ==
    /\ pc = "update"
    /\ canWrite
    /\ outFile' = Appended(outFile, ReportLines(animals))
    /\ outExists' = TRUE
    /\ cout' = Append(cout, Banner)
    /\ pc' = "display"
    /\ UNCHANGED <<namesFile, namesPos, currentSpecies, namesMap, arrivalsFile, arrivalsPos,
                   animals, next, draws, cerr, canWrite, canRead, exitCode, runs>>

(***************************************************************************)
(* main                                                                    *)
(***************************************************************************)
\* The files a run of the whole program may find
E2ENames == [ok |-> TRUE, lines |-> <<<<"H","y","e","n","a"," ","N","a","m","e","s",":">>, <<"S","p","o","t",","," ","S","c","a","r">>,
                                      <<"L","i","o","n"," ","N","a","m","e","s",":">>, <<"L","e","o",","," ","N","a","l","a">>>>]
MixedNames == [ok |-> TRUE, lines |-> <<<<"L","I","O","N"," ","N","a","m","e","s",":">>, <<" ","\t">>,
                                        <<"H","y","e","n","a"," ","n","a","m","e","s",":">>, <<"S","p","o","t",","," ","U","n","n","a","m","e","d">>>>]
NoFile == [ok |-> FALSE, lines |-> <<>>]

aHyena == <<"4"," ","H","y","e","n","a",","," ","b","o","r","n"," ","i","n"," ","s","p","r","i","n","g",","," ","b","r","o","w","n",","," ","4","5",".","5",","," ","s","a","v","a","n","n","a",","," ","e","a","s","t">>
aLion == <<"1","2"," ","l","i","o","n",","," ","f","a","l","l",","," ","t","a","n",","," ","1","9","0",".","5","0",","," ","z","o","o",","," ","w","e","s","t">>
aShort == <<"4"," ","H","y","e","n","a",","," ","s","p","r","i","n","g",","," ","b","r","o","w","n",","," ","4","5",".","5">>
aFive == <<"7"," ","L","i","o","n",","," ","f","a","l","l",","," ","t","a","n",","," ","9",","," ","z","o","o",",">>
aBlank == <<" ","\t">>
aBadAge == <<"x"," ","H","y","e","n","a",","," ","s","p","r","i","n","g",","," ","b","r","o","w","n",","," ","4","5",".","5",","," ","s","a","v","a","n","n","a",","," ","e","a","s","t">>
aBadWeight == <<"4"," ","H","y","e","n","a",","," ","s","p","r","i","n","g",","," ","b","r","o","w","n",","," ","h","e","a","v","y",","," ","s","a","v","a","n","n","a",","," ","e","a","s","t">>
aNegAge == <<"-","3"," ","H","y","e","n","a",","," ","s","p","r","i","n","g",","," ","b","r","o","w","n",","," ","4","5",".","5",","," ","s","a","v","a","n","n","a",","," ","e","a","s","t">>
aNoSpecies == <<"4",","," ","s","p","r","i","n","g",","," ","b","r","o","w","n",","," ","4","5",".","5",","," ","s","a","v","a","n","n","a",","," ","e","a","s","t">>
aBigAge == <<"9","9","9","9","9","9","9","9","9","9","9"," ","L","i","o","n",","," ","f","a","l","l",","," ","t","a","n",","," ","9",","," ","z","o","o",","," ","w","e","s","t">>

RunNames == {E2ENames, MixedNames, NoFile}
RunArrivals == {[ok |-> TRUE, lines |-> <<aHyena>>],
                [ok |-> TRUE, lines |-> <<aLion, aShort, aBlank, aHyena>>],
                [ok |-> TRUE, lines |-> <<aHyena, aBadAge>>],
                NoFile}

\* The loop ends one record early
LoopDoneEarly(i, n) == i >= n

\* line 191: the range-for is past the last record
LoopDone(i, n) == i > n

\* A run of the program starts.  line 182: srand.  The files and the permissions
\* of newAnimals.txt are what the run finds; newAnimals.txt keeps what earlier
\* runs left in it.
Main_Start ==
    /\ pc \in {"boot", "done", "aborted"}
    /\ runs < MaxRuns
    /\ runs' = runs + 1
    /\ namesFile' \in RunNames
    /\ arrivalsFile' \in RunArrivals
    /\ canWrite' \in BOOLEAN
    /\ canRead' \in BOOLEAN
    /\ namesPos' = 1
    /\ currentSpecies' = <<>>
    /\ namesMap' = EmptyMap
    /\ arrivalsPos' = 1
    /\ animals' = <<>>
    /\ next' = 1
    /\ draws' = 0
    /\ cerr' = <<>>
    /\ cout' = <<>>
    /\ exitCode' = 0
    /\ pc' = "loadNames"
    /\ UNCHANGED <<outFile, outExists>>

\* lines 191-193: one record is named
Main_AssignStep ==
    /\ pc = "assign"
    /\ ~LoopDone(next, Len(animals))
    /\ \E r \in 0..MaxRand :
          animals' = [animals EXCEPT ![next].name = assignName(animals[next].species, namesMap, r)]
    /\ draws' = draws + DrawsOf(animals[next].species, namesMap)
    /\ next' = next + 1
    /\ UNCHANGED <<pc, namesFile, namesPos, currentSpecies, namesMap, arrivalsFile, arrivalsPos,
                   cerr, cout, outFile, outExists, canWrite, canRead, exitCode, runs>>

\* line 191: the loop is over
Main_AssignDone ==
    /\ pc = "assign"
    /\ LoopDone(next, Len(animals))
    /\ pc' = "update"
    /\ UNCHANGED <<namesFile, namesPos, currentSpecies, namesMap, arrivalsFile, arrivalsPos,
                   animals, next, draws, cerr, cout, outFile, outExists, canWrite, canRead,
                   exitCode, runs>>

\* lines 201-205: newAnimals.txt cannot be reopened; return 1
Main_DisplayFail ==
    /\ pc = "display"
    /\ ~(outExists /\ canRead)
    /\ cerr' = Append(cerr, [kind |-> "open", text |-> "newAnimals.txt"])
    /\ exitCode' = 1
    /\ pc' = "done"
    /\ UNCHANGED <<namesFile, namesPos, currentSpecies, namesMap, arrivalsFile, arrivalsPos,
                   animals, next, draws, cout, outFile, outExists, canWrite, canRead, runs>>

\* lines 206-213: every line of newAnimals.txt is printed; return 0
Main_Display ==
    /\ pc = "display"
    /\ outExists /\ canRead
    /\ cout' = cout \o <<<<"Updated Zoo Population:">>>> \o outFile
    /\ exitCode' = 0
    /\ pc' = "done"
    /\ UNCHANGED <<namesFile, namesPos, currentSpecies, namesMap, arrivalsFile, arrivalsPos,
                   animals, next, draws, cerr, outFile, outExists, canWrite, canRead, runs>>

Init ==
    /\ pc = "boot"
    /\ namesFile = NoFile
    /\ namesPos = 1
    /\ currentSpecies = <<>>
    /\ namesMap = EmptyMap
    /\ arrivalsFile = NoFile
    /\ arrivalsPos = 1
    /\ animals = <<>>
    /\ next = 1
    /\ draws = 0
    /\ cerr = <<>>
    /\ cout = <<>>
    /\ outFile = <<>>
    /\ outExists = FALSE
    /\ canWrite = TRUE
    /\ canRead = TRUE
    /\ exitCode = 0
    /\ runs = 0

Next ==
    \/ Main_Start
    \/ LoadNames_OpenFail
    \/ LoadNames_Blank
    \/ LoadNames_Header
    \/ LoadNames_Data
    \/ LoadNames_Return
    \/ LoadArrivals_OpenFail
    \/ LoadArrivals_Blank
    \/ LoadArrivals_Invalid
    \/ LoadArrivals_Throw
    \/ LoadArrivals_Record
    \/ LoadArrivals_Return
    \/ Main_AssignStep
    \/ Main_AssignDone
    \/ Update_OpenFail
    \/ Update_Write
    \/ Main_DisplayFail
    \/ Main_Display

Spec == Init /\ [][Next]_vars


(***************************************************************************)
(* The loaders and the assigner on their own, over every input within the  *)
(* bounds.                                                                 *)
(***************************************************************************)
sHyena == <<"H","y","e","n","a">>
sHYENA == <<"H","Y","E","N","A">>
shyena == <<"h","y","e","n","a">>
shYENA == <<"h","Y","E","N","A">>
sLion == <<"L","i","o","n">>
slion == <<"l","i","o","n">>
sTiger == <<"T","i","g","e","r">>
sSpot == <<"S","p","o","t">>
sScar == <<"S","c","a","r">>
sLeo == <<"L","e","o">>
sNala == <<"N","a","l","a">>

nHyena == <<"H","y","e","n","a"," ","N","a","m","e","s",":">>
nSpots == <<" "," ","S","p","o","t",","," ","S","c","a","r">>
nLion == <<"L","i","o","n"," ","n","a","m","e","s",":">>
nLeo == <<"L","e","o",",",","," ","N","a","l","a"," ",",">>
nBlank == <<" ","\t"," ">>
nBare == <<" ","N","a","m","e","s",":">>
nUnnamed == <<"U","n","n","a","m","e","d">>
nUpper == <<"L","i","o","n"," ","N","A","M","E","S",":">>
nHYENA == <<"H","Y","E","N","A","\t","N","a","m","e","s",":">>

NameLinePool == {nHyena, nSpots, nLion, nLeo, nBlank, nBare, nUnnamed, nUpper, nHYENA}
ArrivalLinePool == {aHyena, aLion, aShort, aFive, aBlank, aBadAge, aBadWeight, aNegAge,
                    aNoSpecies, aBigAge}

\* the readable files of at most max lines, each line from pool
Files(pool, max) ==
    {[ok |-> TRUE, lines |-> l] : l \in UNION {[1..n -> pool] : n \in 0..max}}

\* A catalog as loadAnimalNames can build it: the names are non-empty and the
\* empty key, made by a bare "Names:" header, has no name
KeyPool == {sHYENA, sHyena, shyena, sLion}
ListPool == {<<>>, <<sSpot>>, <<sLeo, sNala>>, <<sScar, Unnamed>>}
Catalogs ==
    LET named == UNION {[K -> ListPool] : K \in SUBSET KeyPool} IN
    named \cup {MapPut(m, <<>>, <<>>) : m \in named}
SpeciesPool == {sHyena, shyena, shYENA, slion, sTiger, <<>>}

InitNames ==
    /\ pc = "loadNames"
    /\ namesFile \in {NoFile} \cup Files(NameLinePool, MaxNameLines)
    /\ namesPos = 1
    /\ currentSpecies = <<>>
    /\ namesMap = EmptyMap
    /\ arrivalsFile = NoFile
    /\ arrivalsPos = 1
    /\ animals = <<>>
    /\ next = 1
    /\ draws = 0
    /\ cerr = <<>>
    /\ cout = <<>>
    /\ outFile = <<>>
    /\ outExists = FALSE
    /\ canWrite = TRUE
    /\ canRead = TRUE
    /\ exitCode = 0
    /\ runs = 1

NextNames ==
    \/ LoadNames_OpenFail
    \/ LoadNames_Blank
    \/ LoadNames_Header
    \/ LoadNames_Data
    \/ LoadNames_Return

SpecNames == InitNames /\ [][NextNames]_vars

InitArrivals ==
    /\ pc = "loadArrivals"
    /\ namesFile = NoFile
    /\ namesPos = 1
    /\ currentSpecies = <<>>
    /\ namesMap = EmptyMap
    /\ arrivalsFile \in {NoFile} \cup Files(ArrivalLinePool, MaxArrivalLines)
    /\ arrivalsPos = 1
    /\ animals = <<>>
    /\ next = 1
    /\ draws = 0
    /\ cerr = <<>>
    /\ cout = <<>>
    /\ outFile = <<>>
    /\ outExists = FALSE
    /\ canWrite = TRUE
    /\ canRead = TRUE
    /\ exitCode = 0
    /\ runs = 1

NextArrivals ==
    \/ LoadArrivals_OpenFail
    \/ LoadArrivals_Blank
    \/ LoadArrivals_Invalid
    \/ LoadArrivals_Throw
    \/ LoadArrivals_Record
    \/ LoadArrivals_Return

SpecArrivals == InitArrivals /\ [][NextArrivals]_vars

InitAssign ==
    /\ pc = "assign"
    /\ namesFile = NoFile
    /\ namesPos = 1
    /\ currentSpecies = <<>>
    /\ namesMap \in Catalogs
    /\ arrivalsFile = NoFile
    /\ arrivalsPos = 1
    /\ \E s \in SpeciesPool :
          animals = <<[age |-> 4, species |-> s, birthSeason |-> <<>>, color |-> <<>>,
                       weight |-> <<0, 0>>, origin |-> <<" ">>, name |-> <<>>]>>
    /\ next = 1
    /\ draws = 0
    /\ cerr = <<>>
    /\ cout = <<>>
    /\ outFile = <<>>
    /\ outExists = FALSE
    /\ canWrite = TRUE
    /\ canRead = TRUE
    /\ exitCode = 0
    /\ runs = 1

NextAssign ==
    \/ Main_AssignStep
    \/ Main_AssignDone

SpecAssign == InitAssign /\ [][NextAssign]_vars


(***************************************************************************)
(* Properties                                                              *)
(***************************************************************************)
Range(list) == {list[j] : j \in 1..Len(list)}

\* the records main's loop has named so far
Named == 1..(next - 1)

\* the keys of m equal to species once both are lowercased
Hits(species, m) == {k \in DOMAIN m : ToLowerStr(k) = ToLowerStr(species)}

\* C1: a species that is itself a key of the catalog gets a name from the list
\* stored under that very key, or "Unnamed" when that list is empty; never a name
\* from the list of another key that differs from it only in case.  (SpecAssign)
C1_ExactMatchPriority ==
    \A i \in Named :
        animals[i].species \in DOMAIN namesMap =>
            IF namesMap[animals[i].species] = <<>>
            THEN animals[i].name = Unnamed
            ELSE animals[i].name \in Range(namesMap[animals[i].species])

C1_Witness ==
    /\ next = 2
    /\ animals[1].species = sHyena
    /\ sHyena \in DOMAIN namesMap
    /\ sHYENA \in DOMAIN namesMap
    /\ namesMap[sHYENA] = <<sLeo, sNala>>
    /\ namesMap[sHyena] = <<sSpot>>
    /\ animals[1].name = sSpot

\* C2, as amended: when the species is no key of the catalog and some key equals
\* it once both are lowercased, the first such key in ascending key order is
\* selected, and the result is a member of that key's list, or "Unnamed" when
\* that list is empty.  (SpecAssign)
C2_CaseInsensitiveFallback ==
    \A i \in Named :
        (animals[i].species \notin DOMAIN namesMap /\ Hits(animals[i].species, namesMap) # {}) =>
            \E k \in Hits(animals[i].species, namesMap) :
                /\ \A j \in Hits(animals[i].species, namesMap) \ {k} : StrLess(k, j)
                /\ IF namesMap[k] = <<>>
                   THEN animals[i].name = Unnamed
                   ELSE animals[i].name \in Range(namesMap[k])

\* catalog {"Lion": ["Leo", "Nala"]}, species "lion", result "Nala"
C2_Witness ==
    /\ next = 2
    /\ animals[1].species = slion
    /\ DOMAIN namesMap = {sLion}
    /\ namesMap[sLion] = <<sLeo, sNala>>
    /\ animals[1].name = sNala

\* C2 as stated: the result is always a member of the list of the first key that
\* matches case-insensitively.
C2_Original ==
    \A i \in Named :
        (animals[i].species \notin DOMAIN namesMap /\ Hits(animals[i].species, namesMap) # {}) =>
            \E k \in Hits(animals[i].species, namesMap) :
                /\ \A j \in Hits(animals[i].species, namesMap) \ {k} : StrLess(k, j)
                /\ animals[i].name \in Range(namesMap[k])

\* the selected entry of a species exists and has a candidate
HasCandidates(species, m) == Lookup(species, m) # End /\ m[Lookup(species, m)] # <<>>

\* C3, as amended: whenever the selected entry (the exact key, else the first
\* case-insensitive match) does not exist or has an empty list the result is
\* "Unnamed"; in every other case the result is an element of the selected
\* entry's list, read at an index within its bounds (and so it is "Unnamed" only
\* if that string is itself a candidate of the list).  (SpecAssign)
C3_FallbackSentinel ==
    \A i \in Named :
        IF HasCandidates(animals[i].species, namesMap)
        THEN animals[i].name \in Range(namesMap[Lookup(animals[i].species, namesMap)])
        ELSE animals[i].name = Unnamed

\* the second candidate of a list is picked
C3_Witness ==
    /\ next = 2
    /\ HasCandidates(animals[1].species, namesMap)
    /\ Len(namesMap[Lookup(animals[1].species, namesMap)]) = 2
    /\ animals[1].name = namesMap[Lookup(animals[1].species, namesMap)][2]

\* C3 as stated: the result is "Unnamed" exactly when the selected entry does not
\* exist or is empty.
C3_Original ==
    \A i \in Named :
        /\ (animals[i].name = Unnamed) <=> ~HasCandidates(animals[i].species, namesMap)
        /\ HasCandidates(animals[i].species, namesMap) =>
               animals[i].name \in Range(namesMap[Lookup(animals[i].species, namesMap)])

\* C4: every record of the arrivals list has a non-negative age and a non-empty
\* species, whatever the file holds.  (SpecArrivals)
C4_RecordInvariant ==
    \A i \in 1..Len(animals) : animals[i].age >= 0 /\ animals[i].species # <<>>

\* the lines loadArrivingAnimals has gone through
ArrivalsRead == SubSeq(arrivalsFile.lines, 1, arrivalsPos - 1)

IsShortLine(l) == trim(l) # <<>> /\ Len(SplitComma(trim(l))) < 6
IsWellFormed(l) ==
    /\ trim(l) # <<>>
    /\ Len(SplitComma(trim(l))) >= 6
    /\ stoi(FirstToken(Parts(trim(l))[1]).tok).ok
    /\ stod(Parts(trim(l))[4]).ok
IsInvalidNote(d) == d.kind = "invalid"

\* C5: of the lines gone through, every non-blank line of fewer than 6 fields has
\* produced exactly one "Invalid record" diagnostic naming it and no record, and
\* every well-formed line, before and after it, has produced its record, in file
\* order; the loader returns only once it has gone through every line.
\* (SpecArrivals)
C5_InvalidSkipped ==
    arrivalsFile.ok =>
        LET short == SelectSeq(ArrivalsRead, IsShortLine)
            good == SelectSeq(ArrivalsRead, IsWellFormed)
            notes == SelectSeq(cerr, IsInvalidNote)
        IN /\ arrivalsPos <= Len(arrivalsFile.lines) + 1
           /\ notes = [i \in 1..Len(short) |-> [kind |-> "invalid", text |-> trim(short[i])]]
           /\ animals = [i \in 1..Len(good) |-> MakeAnimal(Parts(trim(good[i])))]
           /\ pc = "assign" => arrivalsPos = Len(arrivalsFile.lines) + 1

C5_Witness ==
    /\ pc = "assign"
    /\ arrivalsFile.lines = <<aHyena, aShort, aLion>>
    /\ Len(animals) = 2
    /\ animals[1].species = sHyena
    /\ animals[2].species = slion
    /\ Len(cerr) = 1

\* C6, as amended: a run that reaches the report writer and can open
\* newAnimals.txt for appending keeps the previous contents as a prefix and adds
\* exactly one line per record the run parsed; in every other step (the file
\* cannot be opened for appending, or the run ends before the writer) the file
\* is left as it was.  No step truncates or de-duplicates.  (Spec)
C6_AppendOnly ==
    [][IF pc = "update" /\ canWrite
       THEN /\ Len(outFile') = Len(outFile) + Len(animals)
            /\ SubSeq(outFile', 1, Len(outFile)) = outFile
       ELSE outFile' = outFile]_vars

\* two runs on the same arrival left the same line twice
C6_Witness ==
    /\ runs = 2
    /\ pc = "done"
    /\ arrivalsFile.lines = <<aHyena>>
    /\ Len(outFile) = 2
    /\ outFile[1] = outFile[2]

\* C6 as stated: every run adds one line per record it parsed.
C6_Original ==
    [][pc = "update" =>
          /\ Len(outFile') = Len(outFile) + Len(animals)
          /\ SubSeq(outFile', 1, Len(outFile)) = outFile]_vars

\* C7: a run ends with a non-zero status only if newAnimals.txt could not be
\* reopened for the final display step.  (Spec)
C7_ExitStatus ==
    (pc \in {"done", "aborted"} /\ exitCode # 0) =>
        (cerr # <<>> /\ cerr[Len(cerr)] = [kind |-> "open", text |-> "newAnimals.txt"])

\* C8: once the naming loop is over every record has a name, "Unnamed" or a
\* candidate of the catalog entry selected for its species, and the lines the
\* writer appends carry these names; no line of the file has an empty name.
\* (Spec)
C8_NamedBeforeWrite ==
    /\ pc \in {"update", "display", "done"} =>
          \A i \in 1..Len(animals) :
              /\ animals[i].name # <<>>
              /\ \/ animals[i].name = Unnamed
                 \/ /\ Lookup(animals[i].species, namesMap) # End
                    /\ animals[i].name \in Range(namesMap[Lookup(animals[i].species, namesMap)])
    /\ (pc \in {"display", "done"} /\ canWrite) =>
          /\ Len(outFile) >= Len(animals)
          /\ \A i \in 1..Len(animals) :
                 outFile[Len(outFile) - Len(animals) + i][1] = animals[i].name
    /\ \A i \in 1..Len(outFile) : outFile[i][1] # <<>>

C8_Witness ==
    /\ pc = "done"
    /\ canWrite
    /\ Len(animals) = 2
    /\ Len(outFile) = 2
    /\ outFile[1][1] = sNala
    /\ outFile[2][1] = sScar

\* C9, as amended: a call of assignName consumes one draw of rand() exactly when
\* the selected entry exists and has a candidate, and none when it falls back to
\* "Unnamed"; so the draws of a run number the records named so far whose
\* species selects a non-empty list, which is at most the number of records.
\* (Spec)
C9_DrawsCounted ==
    /\ draws = Cardinality({i \in Named : HasCandidates(animals[i].species, namesMap)})
    /\ draws <= Len(animals)

\* one of two records fell back to "Unnamed" without a draw
C9_Witness ==
    /\ pc = "done"
    /\ Len(animals) = 2
    /\ draws = 1
    /\ animals[1].name = Unnamed
    /\ ~HasCandidates(animals[1].species, namesMap)

\* C9 as stated: after the naming loop the draws number the arrival records.
C9_Original == pc \in {"update", "display", "done"} => draws = Len(animals)

\* the trimmed lines loadAnimalNames has gone through
NamesRead == [i \in 1..(namesPos - 1) |-> trim(namesFile.lines[i])]

HeaderAt(i) == NamesRead[i] # <<>> /\ IsHeader(NamesRead[i])
Headers == {i \in 1..Len(NamesRead) : HeaderAt(i)}
IsName(f) == f # <<>>

\* the non-empty trimmed fields of lines a..b
RECURSIVE FieldsOf(_, _)
FieldsOf(a, b) ==
    IF a > b THEN <<>>
    ELSE SelectSeq(Parts(NamesRead[a]), IsName) \o FieldsOf(a + 1, b)

\* the names between the last header of species k and the next header
SectionOf(k) ==
    LET mine == {i \in Headers : HeaderSpecies(NamesRead[i]) = k}
        last == CHOOSE i \in mine : \A j \in mine : j <= i
        later == {j \in Headers : j > last}
        stop == IF later = {} THEN Len(NamesRead) + 1
                ELSE CHOOSE j \in later : \A h \in later : j <= h
    IN FieldsOf(last + 1, stop - 1)

\* C10, as amended: the keys of the catalog are the species of the header lines;
\* the list of a species with a non-empty name holds exactly the non-empty
\* trimmed fields of the data lines between that species' last header and the
\* next header, in file order (a repeated header overwrites); the data lines
\* before any header, and those after a header whose species is empty (a bare
\* "Names:"), are added to no species, and the list of the empty species stays
\* empty.  (SpecNames)
C10_CatalogBuilt ==
    namesFile.ok =>
        /\ DOMAIN namesMap = {HeaderSpecies(NamesRead[i]) : i \in Headers}
        /\ \A k \in DOMAIN namesMap :
               namesMap[k] = IF k = <<>> THEN <<>> ELSE SectionOf(k)
        /\ pc = "loadArrivals" => namesPos = Len(namesFile.lines) + 1

\* a repeated header has emptied the list
C10_Witness ==
    /\ pc = "loadArrivals"
    /\ namesFile.lines = <<nHyena, nSpots, nHyena>>
    /\ namesMap[sHyena] = <<>>

\* C10 as stated: the list of every species holds the fields of the data lines
\* of its last section.
C10_Original ==
    namesFile.ok =>
        /\ DOMAIN namesMap = {HeaderSpecies(NamesRead[i]) : i \in Headers}
        /\ \A k \in DOMAIN namesMap : namesMap[k] = SectionOf(k)

====
